---- MODULE Spec2Model ----
(***************************************************************************)
(* State-machine model of faceless_short_automation.py: module import      *)
(* (configuration), the __main__ block, run_once and the wrappers it       *)
(* calls (generate_script, fetch_vertical_clip, generate_voiceover,        *)
(* build_video, upload_short), with tenacity's retry decorator.            *)
(*                                                                         *)
(* A text is a sequence of tokens <<w, g>>: a word of w non-blank          *)
(* characters followed by g whitespace characters; a raw provider answer   *)
(* also carries its leading whitespace.                                    *)
(***************************************************************************)
EXTENDS Integers, Sequences, FiniteSets, TLC

VARIABLES
    env,          \* what the import-time configuration reads (keys, tenacity)
    args,         \* parsed command line: upload, dry_run
    pc,           \* position of the process
    topic,        \* run_once: topic (sequence of words)
    script,       \* run_once: script (stripped / truncated text)
    attempts,     \* attempts made by the retry wrapper of the current call
    clips,        \* run_once: clips downloaded so far
    fetch,        \* fetch_vertical_clip: chosen, file_link (between search and download)
    lastSearch,   \* what the last search request met (history)
    err,          \* the exception being handled (none once a call has returned)
    requests,     \* the remote services a request was sent to
    voice,        \* run_once: the voice-over file was written
    video_clips,  \* build_video: video_clips
    handles,      \* build_video: state of every clip handle
    outfile,      \* state of the final output path
    token,        \* whether YT_REFRESH_TOKEN is stored, as upload_short finds it
    chunks,       \* upload_short: next_chunk calls that reported progress
    log,          \* messages printed
    exitCode      \* exit status (meaningful when pc = "exit")

vars == <<env, args, pc, topic, script, attempts, clips, fetch, lastSearch, err,
          requests, voice, video_clips, handles, outfile, token, chunks, log, exitCode>>

-----------------------------------------------------------------------------
(* Program constants *)

TARGET_DURATION == 18
ScriptGuardChars == 390
ScriptGuardWords == 75
TTS_LIMIT == 400
ScriptAttempts == 4
FetchAttempts == 3
VoiceAttempts == 3
MaxKeywords == 3

TOPICS ==
    << <<"quantum", "computing">>,
       <<"Mars", "colonization">>,
       <<"deep-sea", "creatures">>,
       <<"ancient", "Egyptian", "tech">>,
       <<"AI", "art">>,
       <<"sustainable", "architecture">> >>

(* Bounds of the model *)

ShortWords == 60      \* word count of a script that respects the prompt
MaxWords == 80        \* word count of an overlong provider answer
MaxWordLen == 5       \* longest word, in characters
MaxGap == 2           \* longest whitespace run between two words
MaxLead == 1          \* leading whitespace of a raw provider answer
MaxVideos == 2        \* videos in one search response
MaxFiles == 2         \* video_files of one video
ShortClip == 4        \* native duration (s) of a short clip
LongClip == 20        \* native duration (s) of a long clip
MaxChunks == 2        \* chunks of a resumable upload

Min(a, b) == IF a <= b THEN a ELSE b

-----------------------------------------------------------------------------
(* Texts *)

\* characters of the tokens lo..hi of a text
RECURSIVE SumTokens(_, _, _)
SumTokens(toks, lo, hi) ==
    IF lo > hi THEN 0
    ELSE IF lo = hi THEN toks[lo][1] + toks[lo][2]
    ELSE LET mid == (lo + hi) \div 2
         IN  SumTokens(toks, lo, mid) + SumTokens(toks, mid + 1, hi)

\* len(text)
CharLen(text) == SumTokens(text, 1, Len(text))

\* str.strip(): drops the leading whitespace and the whitespace after the last word
strip(raw) ==
    LET toks == raw.toks
        n == Len(toks)
    IN  IF n = 0 THEN <<>>
        ELSE Append(SubSeq(toks, 1, n - 1), <<toks[n][1], 0>>)

\* str.split(): the words (here their lengths), whitespace runs dropped
split(text) == [i \in 1..Len(text) |-> text[i][1]]

\* " ".join(words)
join(words) ==
    [i \in 1..Len(words) |-> <<words[i], IF i = Len(words) THEN 0 ELSE 1>>]

\* words[:n]
Prefix(s, n) == SubSeq(s, 1, Min(n, Len(s)))

\* generate_script, after the provider answered: strip, then the length guard
generate_script_guard(raw) ==
    LET stripped == strip(raw)
    IN  IF CharLen(stripped) > ScriptGuardChars
        THEN join(Prefix(split(stripped), ScriptGuardWords))
        ELSE stripped

WordCounts == {ShortWords, MaxWords}
WordLens == {MaxWordLen - 1, MaxWordLen}

\* what the chat endpoint may answer: n words of w characters, g blanks apart
ProviderTexts ==
    { [lead |-> l, toks |-> [i \in 1..n |-> <<w, g>>]] :
        l \in 0..MaxLead, n \in WordCounts, w \in WordLens, g \in 1..MaxGap }

NoText == <<>>

-----------------------------------------------------------------------------
(* Exceptions *)

Exc(type, msg) == [type |-> type, msg |-> msg, last |-> ""]
NoErr == Exc("", "")

\* tenacity: raised when the last attempt failed; wraps that attempt's exception
RetryError(e) == [type |-> "RetryError", msg |-> e.msg, last |-> e.type]

MissingPexelsKey == Exc("EnvironmentError", "PEXELS_API_KEY is not set.")
MissingElevenKey == Exc("EnvironmentError", "ELEVENLABS_API_KEY is not set.")
NoResultsError == Exc("RuntimeError", "No vertical clips found")
NoVariantsError == Exc("RuntimeError", "Chosen video has no vertical variants: retrying.")
TooLongError == Exc("ValueError", "Script too long for ElevenLabs TTS (400 char limit).")
HTTPError == Exc("HTTPError", "")
IndexError == Exc("IndexError", "")
OpenAIErrors == {Exc("RateLimitError", ""), Exc("APIError", "")}

-----------------------------------------------------------------------------
(* Search responses *)

SeqsUpTo(S, n) == UNION {[1..k -> S] : k \in 0..n}

\* <<width, height>> of the encodings a video may offer:
\* narrow portrait, wide portrait, square, landscape
Dims == {<<1, 2>>, <<2, 3>>, <<1, 1>>, <<3, 2>>}

\* a video of the response; the link of a file is its place in the video
Videos ==
    { [video_files |-> [i \in 1..Len(d) |->
                          [width |-> d[i][1], height |-> d[i][2], link |-> i]]] :
        d \in SeqsUpTo(Dims, MaxFiles) }

_vertical_files_le(video_dict) ==
    SelectSeq(video_dict.video_files, LAMBDA f : f.width <= f.height)

_vertical_files(video_dict) ==
    SelectSeq(video_dict.video_files, LAMBDA f : f.width < f.height)

\* min(files, key=lambda f: f["width"]): the first file of smallest width
smallest(files) ==
    files[CHOOSE i \in 1..Len(files) :
            /\ \A j \in 1..Len(files) : files[i].width <= files[j].width
            /\ \A j \in 1..(i - 1) : files[j].width > files[i].width]

NoResults_never(n) == FALSE

\* "if not vids", for a response of n videos
NoResults(n) == n = 0

\* what the streamed GET of a link writes: the file of the chosen video with that link
Download(chosen, link) ==
    LET f == CHOOSE f \in {chosen.video_files[i] : i \in 1..Len(chosen.video_files)} :
                f.link = link
    IN  [width |-> f.width, height |-> f.height]

NoFetch == [chosen |-> [video_files |-> <<>>], file_link |-> 0]

-----------------------------------------------------------------------------
(* Configuration (module import) *)

OpenAIKeyMissing_never == FALSE

\* "if not os.getenv("OPENAI_API_KEY")"
OpenAIKeyMissing == ~env.openai

\* the two warnings printed at import
Warnings ==
    (IF env.pexels THEN {} ELSE {"WARNING: PEXELS_API_KEY is not set."})
    \cup (IF env.eleven THEN {} ELSE {"WARNING: ELEVENLABS_API_KEY is not set."})

stop_after_attempt_late(max, n) == n >= max + 1

\* tenacity's stop_after_attempt(max), asked after the n-th attempt failed
stop_after_attempt(max, n) == n >= max

TextTooLong_never(text) == FALSE

\* "if len(text) > 400"
TextTooLong(text) == CharLen(text) > TTS_LIMIT

upload_skips_lib_only(lib, tok) == ~lib

\* upload_short returns early: client library not importable, or no token
upload_skips(lib, tok) == ~lib \/ ~tok

\* topic.split()[:3]
keywords == Prefix(topic, MaxKeywords)

\* TARGET_DURATION / float(len(clips))
segment == TARGET_DURATION \div Len(clips)

\* VideoFileClip(p).subclip(t_start, t_end): the end time is taken as given,
\* the clip's native duration is not consulted
subclip(native, t_start, t_end) == t_end - t_start

Durations == {ShortClip, LongClip}

ClipHandles == {"clip1", "clip2", "clip3"}
ClipHandle(i) == IF i = 1 THEN "clip1" ELSE IF i = 2 THEN "clip2" ELSE "clip3"
Handles == ClipHandles \cup {"concat", "audio", "caption", "final"}

-----------------------------------------------------------------------------
(* Initial state: the process starts importing the module *)

Init ==
    /\ env \in [openai : BOOLEAN, pexels : BOOLEAN, eleven : BOOLEAN, tenacity : BOOLEAN]
    /\ args \in [upload : BOOLEAN, dry_run : BOOLEAN]
    /\ pc = "import"
    /\ topic = <<>>
    /\ script = NoText
    /\ attempts = 0
    /\ clips = <<>>
    /\ fetch = NoFetch
    /\ lastSearch = "none"
    /\ err = NoErr
    /\ requests = {}
    /\ voice = FALSE
    /\ video_clips = <<>>
    /\ handles = [h \in Handles |-> "none"]
    /\ outfile = "absent"
    /\ token = "unseen"
    /\ chunks = 0
    /\ log = {}
    /\ exitCode = 0

-----------------------------------------------------------------------------
(* Leaving the process *)

\* sys.exit(code) / falling off the end of the script
Exit(code, messages) ==
    /\ pc' = "exit"
    /\ exitCode' = code
    /\ log' = log \cup messages

\* an exception leaves run_once: "except Exception as exc" prints and exits 1
Fatal(e) ==
    /\ err' = e
    /\ Exit(1, {"Fatal error"})

\* an attempt of a @retry-wrapped call raised e: tenacity stops (RetryError) or
\* sleeps and re-enters the call at `again`
Raise(max, e, again) ==
    /\ attempts' = attempts + 1
    /\ IF stop_after_attempt(max, attempts + 1)
       THEN Fatal(RetryError(e))
       ELSE /\ pc' = again
            /\ err' = e
            /\ UNCHANGED <<exitCode, log>>

-----------------------------------------------------------------------------
(* Module import: lines 66-104 *)

Startup ==
    /\ pc = "import"
    /\ IF OpenAIKeyMissing
       THEN /\ Exit(1, {"ERROR: OPENAI_API_KEY is not set."})
            /\ UNCHANGED err
       ELSE IF ~env.tenacity
       THEN \* the fallback leaves wait_random_exponential = None, and the
            \* decorator line calls it
            /\ Exit(1, Warnings)
            /\ err' = Exc("TypeError", "'NoneType' object is not callable")
       ELSE /\ pc' = "main"
            /\ log' = log \cup Warnings
            /\ UNCHANGED <<exitCode, err>>
    /\ UNCHANGED <<env, args, topic, script, attempts, clips, fetch, lastSearch,
                   requests, voice, video_clips, handles, outfile, token, chunks>>

\* __main__ enters run_once, which picks the topic
Main ==
    /\ pc = "main"
    /\ \E t \in 1..Len(TOPICS) : topic' = TOPICS[t]
    /\ pc' = "generate_script"
    /\ attempts' = 0
    /\ UNCHANGED <<env, args, script, clips, fetch, lastSearch, err, requests, voice,
                   video_clips, handles, outfile, token, chunks, log, exitCode>>

\* one attempt of generate_script, and run_once up to the dry-run return
GenerateScript ==
    /\ pc = "generate_script"
    /\ requests' = requests \cup {"llm"}
    /\ \/ \E raw \in ProviderTexts :
            /\ script' = generate_script_guard(raw)
            /\ attempts' = 0
            /\ IF args.dry_run
               THEN Exit(0, {"[SCRIPT]", "Dry-run: skipping video/TTS/download/upload."})
               ELSE /\ pc' = "fetch_search"
                    /\ log' = log \cup {"[SCRIPT]"}
                    /\ UNCHANGED exitCode
            /\ err' = NoErr
       \/ \E e \in OpenAIErrors :
            /\ Raise(ScriptAttempts, e, "generate_script")
            /\ UNCHANGED script
    /\ UNCHANGED <<env, args, topic, clips, fetch, lastSearch, voice, video_clips,
                   handles, outfile, token, chunks>>

\* what a search attempt met, read off the response itself: n videos, of which
\* random.choice drew `chosen`
Met(n, chosen) ==
    IF n = 0 THEN "empty"
    ELSE IF \A k \in 1..Len(chosen.video_files) :
                chosen.video_files[k].width >= chosen.video_files[k].height
    THEN "no_vertical"
    ELSE "ok"

\* fetch_vertical_clip up to the choice of file_link (lines 130-151). The response
\* is read only through its length and the video random.choice draws, so the
\* action draws these two: n = len(vids), chosen = the video drawn.
FetchSearch ==
    /\ pc = "fetch_search"
    /\ IF ~env.pexels
       THEN /\ Raise(FetchAttempts, MissingPexelsKey, "fetch_search")
            /\ UNCHANGED <<requests, fetch, lastSearch>>
       ELSE /\ requests' = requests \cup {"search"}
            /\ \/ \* requests.get raised, or raise_for_status did
                  /\ Raise(FetchAttempts, HTTPError, "fetch_search")
                  /\ lastSearch' = "http_error"
                  /\ UNCHANGED fetch
               \/ \E n \in 0..MaxVideos :
                    IF NoResults(n)
                    THEN /\ Raise(FetchAttempts, NoResultsError, "fetch_search")
                         /\ lastSearch' = Met(n, NoFetch.chosen)
                         /\ UNCHANGED fetch
                    ELSE IF n = 0
                    THEN \* random.choice of an empty list
                         /\ Raise(FetchAttempts, IndexError, "fetch_search")
                         /\ lastSearch' = Met(n, NoFetch.chosen)
                         /\ UNCHANGED fetch
                    ELSE \E chosen \in Videos :
                           LET files == _vertical_files(chosen)
                           IN  /\ lastSearch' = Met(n, chosen)
                               /\ IF Len(files) = 0
                                  THEN /\ Raise(FetchAttempts, NoVariantsError, "fetch_search")
                                       /\ UNCHANGED fetch
                                  ELSE /\ fetch' = [chosen |-> chosen,
                                                    file_link |-> smallest(files).link]
                                       /\ pc' = "fetch_download"
                                       /\ UNCHANGED <<attempts, err, exitCode, log>>
    /\ UNCHANGED <<env, args, topic, script, clips, voice, video_clips, handles,
                   outfile, token, chunks>>

\* the streamed download of file_link (lines 152-158), and run_once's list
\* comprehension moving to the next keyword
FetchDownload ==
    /\ pc = "fetch_download"
    /\ requests' = requests \cup {"download"}
    /\ fetch' = NoFetch
    /\ \/ /\ clips' = Append(clips, Download(fetch.chosen, fetch.file_link))
          /\ attempts' = 0
          /\ pc' = IF Len(clips) + 1 = Len(keywords)
                   THEN "generate_voiceover" ELSE "fetch_search"
          /\ err' = NoErr
          /\ UNCHANGED <<exitCode, log>>
       \/ /\ Raise(FetchAttempts, HTTPError, "fetch_search")
          /\ UNCHANGED clips
    /\ UNCHANGED <<env, args, topic, script, lastSearch, voice, video_clips, handles,
                   outfile, token, chunks>>

\* one attempt of generate_voiceover (lines 161-179)
GenerateVoiceover ==
    /\ pc = "generate_voiceover"
    /\ IF ~env.eleven
       THEN /\ Raise(VoiceAttempts, MissingElevenKey, "generate_voiceover")
            /\ UNCHANGED <<requests, voice>>
       ELSE IF TextTooLong(script)
       THEN /\ Raise(VoiceAttempts, TooLongError, "generate_voiceover")
            /\ UNCHANGED <<requests, voice>>
       ELSE /\ requests' = requests \cup {"tts"}
            /\ \/ /\ voice' = TRUE
                  /\ attempts' = 0
                  /\ pc' = "build_video"
                  /\ err' = NoErr
                  /\ UNCHANGED <<exitCode, log>>
               \/ /\ Raise(VoiceAttempts, HTTPError, "generate_voiceover")
                  /\ UNCHANGED voice
    /\ UNCHANGED <<env, args, topic, script, clips, fetch, lastSearch, video_clips,
                   handles, outfile, token, chunks>>

-----------------------------------------------------------------------------
(* build_video: lines 189-225 *)

\* one element of the list comprehension: open the clip, take its sub-clip
BuildOpenClip ==
    /\ pc = "build_video"
    /\ LET i == Len(video_clips) + 1
       IN  \/ \E native \in Durations :
                /\ handles' = [handles EXCEPT ![ClipHandle(i)] = "open"]
                /\ video_clips' = Append(video_clips,
                                         [native |-> native,
                                          duration |-> subclip(native, 0, segment)])
                /\ pc' = IF i = Len(clips) THEN "build_concat" ELSE "build_video"
                /\ UNCHANGED <<err, exitCode, log>>
           \/ /\ Fatal(Exc("OSError", "VideoFileClip"))
              /\ UNCHANGED <<handles, video_clips>>
    /\ UNCHANGED <<env, args, topic, script, attempts, clips, fetch, lastSearch,
                   requests, voice, outfile, token, chunks>>

\* concatenate_videoclips, AudioFileClip, set_audio
BuildConcat ==
    /\ pc = "build_concat"
    /\ \/ /\ handles' = [handles EXCEPT !["concat"] = "open", !["audio"] = "open"]
          /\ pc' = "build_caption"
          /\ UNCHANGED <<err, exitCode, log>>
       \/ /\ handles' = [handles EXCEPT !["concat"] = "open"]
          /\ Fatal(Exc("OSError", "AudioFileClip"))
    /\ UNCHANGED <<env, args, topic, script, attempts, clips, fetch, lastSearch,
                   requests, voice, video_clips, outfile, token, chunks>>

\* TextClip (caption), CompositeVideoClip (final)
BuildCaption ==
    /\ pc = "build_caption"
    /\ \/ /\ handles' = [handles EXCEPT !["caption"] = "open", !["final"] = "open"]
          /\ pc' = "build_write"
          /\ UNCHANGED <<err, exitCode, log>>
       \/ /\ Fatal(Exc("OSError", "TextClip"))
          /\ UNCHANGED handles
    /\ UNCHANGED <<env, args, topic, script, attempts, clips, fetch, lastSearch,
                   requests, voice, video_clips, outfile, token, chunks>>

\* final.write_videofile(str(out_path)) starts encoding into out_path
BuildWriteBegin ==
    /\ pc = "build_write"
    /\ \/ /\ outfile' = "partial"
          /\ pc' = "build_writing"
          /\ UNCHANGED <<err, exitCode, log>>
       \/ /\ Fatal(Exc("OSError", "write_videofile"))
          /\ UNCHANGED outfile
    /\ UNCHANGED <<env, args, topic, script, attempts, clips, fetch, lastSearch,
                   requests, voice, video_clips, handles, token, chunks>>

\* the encoding ends: all frames written, or an exception part-way
BuildWriteEnd ==
    /\ pc = "build_writing"
    /\ \/ /\ outfile' = "complete"
          /\ pc' = "build_cleanup"
          /\ UNCHANGED <<err, exitCode, log>>
       \/ /\ Fatal(Exc("OSError", "write_videofile"))
          /\ UNCHANGED outfile
    /\ UNCHANGED <<env, args, topic, script, attempts, clips, fetch, lastSearch,
                   requests, voice, video_clips, handles, token, chunks>>

\* final.close(), caption.close(), every c.close(), vid.close() (which closes the
\* audio attached to it); back in run_once: "Video saved", then the upload branch
BuildCleanup ==
    /\ pc = "build_cleanup"
    /\ handles' = [h \in Handles |-> IF handles[h] = "open" THEN "closed" ELSE handles[h]]
    /\ IF args.upload
       THEN /\ pc' = "upload_short"
            /\ log' = log \cup {"Video saved"}
            /\ UNCHANGED exitCode
       ELSE Exit(0, {"Video saved"})
    /\ UNCHANGED <<env, args, topic, script, attempts, clips, fetch, lastSearch, err,
                   requests, voice, video_clips, outfile, token, chunks>>

-----------------------------------------------------------------------------
(* upload_short: lines 228-268 *)

\* the imports, the token, the credentials and the insert request
UploadShort ==
    /\ pc = "upload_short"
    /\ \E lib \in BOOLEAN, tok \in BOOLEAN :
         /\ token' = IF tok THEN "set" ELSE "unset"
         /\ IF upload_skips(lib, tok)
            THEN /\ Exit(0, {IF ~lib
                             THEN "google-api-python-client not installed - skipping upload."
                             ELSE "YT_REFRESH_TOKEN not set - skipping upload."})
                 /\ UNCHANGED err
            ELSE \/ /\ pc' = "uploading"
                    /\ log' = log \cup {"Uploading"}
                    /\ UNCHANGED <<err, exitCode>>
                 \/ \* Credentials.from_authorized_user_info / build / MediaFileUpload raised
                    Fatal(Exc("ValueError", "credentials"))
    /\ UNCHANGED <<env, args, topic, script, attempts, clips, fetch, lastSearch,
                   requests, voice, video_clips, handles, outfile, chunks>>

\* one request.next_chunk() of the upload loop
UploadChunk ==
    /\ pc = "uploading"
    /\ requests' = requests \cup {"yt"}
    /\ \/ /\ chunks < MaxChunks
          /\ chunks' = chunks + 1
          /\ UNCHANGED <<pc, err, exitCode, log>>
       \/ /\ Exit(0, {"done"})
          /\ UNCHANGED <<chunks, err>>
       \/ /\ Exit(0, {"YouTube upload failed"})
          /\ err' = Exc("HttpError", "")
          /\ UNCHANGED chunks
       \/ /\ Fatal(Exc("OSError", "next_chunk"))
          /\ UNCHANGED chunks
    /\ UNCHANGED <<env, args, topic, script, attempts, clips, fetch, lastSearch,
                   voice, video_clips, handles, outfile, token>>

-----------------------------------------------------------------------------
(* Ctrl-C while run_once runs: "except KeyboardInterrupt" prints and the script ends *)

InRunOnce == pc \notin {"import", "main", "exit"}

Interrupt ==
    /\ InRunOnce
    /\ err' = Exc("KeyboardInterrupt", "")
    /\ Exit(0, {"Aborted by user."})
    /\ UNCHANGED <<env, args, topic, script, attempts, clips, fetch, lastSearch,
                   requests, voice, video_clips, handles, outfile, token, chunks>>

Next ==
    \/ Startup
    \/ Main
    \/ GenerateScript
    \/ FetchSearch
    \/ FetchDownload
    \/ GenerateVoiceover
    \/ BuildOpenClip
    \/ BuildConcat
    \/ BuildCaption
    \/ BuildWriteBegin
    \/ BuildWriteEnd
    \/ BuildCleanup
    \/ UploadShort
    \/ UploadChunk
    \/ Interrupt

Spec == Init /\ [][Next]_vars

-----------------------------------------------------------------------------
(* Properties *)

FetchPcs == {"fetch_search", "fetch_download"}
BuildPcs == {"build_video", "build_concat", "build_caption", "build_write",
             "build_writing", "build_cleanup"}
UploadPcs == {"upload_short", "uploading"}

Files(video) == {video.video_files[k] : k \in 1..Len(video.video_files)}

\* C1: the script generate_script returns has at most 400 characters, whatever
\* the provider answered.
C1_ScriptFitsLimit == CharLen(script) <= TTS_LIMIT

\* C2: fetch_vertical_clip only downloads a file of the chosen video with
\* width < height and the smallest width among such files, every clip it returned
\* is such a file, and a chosen video without such a file makes it raise.
C2_OnlyVerticalDownloaded ==
    /\ pc = "fetch_download" =>
         \E f \in Files(fetch.chosen) :
            /\ f.link = fetch.file_link
            /\ f.width < f.height
            /\ \A g \in Files(fetch.chosen) : g.width < g.height => f.width <= g.width
    /\ \A i \in 1..Len(clips) : clips[i].width < clips[i].height
    /\ lastSearch = "no_vertical" =>
         /\ pc \in {"fetch_search", "exit"}
         /\ fetch = NoFetch
         /\ \/ err \in {NoVariantsError, RetryError(NoVariantsError)}
            \/ err.type = "KeyboardInterrupt"

\* a file is about to be downloaded from a video that also offers a narrower
\* file that is not vertical
C2_MixedVideoChosen ==
    /\ pc = "fetch_download"
    /\ \E f, g \in Files(fetch.chosen) :
          /\ f.link = fetch.file_link
          /\ g.width >= g.height
          /\ g.width < f.width

\* C3: with a script of more than 400 characters generate_voiceover fails with
\* an error raised before the request (ValueError when the key is set), and no
\* request reaches the speech-synthesis endpoint in any attempt.
C3_TooLongRejectedLocally ==
    CharLen(script) > TTS_LIMIT =>
        /\ "tts" \notin requests
        /\ ~voice
        /\ pc \notin BuildPcs \cup UploadPcs
        /\ (pc = "generate_voiceover" /\ attempts > 0) =>
              err = (IF env.eleven THEN TooLongError ELSE MissingElevenKey)
        /\ (pc = "exit" /\ err.type = "RetryError" /\ Len(clips) = Len(keywords)) =>
              /\ err = RetryError(IF env.eleven THEN TooLongError ELSE MissingElevenKey)
              /\ attempts = VoiceAttempts

C3_TooLongExhausted ==
    /\ pc = "exit"
    /\ CharLen(script) > TTS_LIMIT
    /\ err = RetryError(TooLongError)
    /\ attempts = VoiceAttempts

\* C4: every clip is used for min(segment, native duration).
C4_UsedLengthIsMin ==
    \A i \in 1..Len(video_clips) :
        video_clips[i].duration = Min(segment, video_clips[i].native)

\* C5: upload requested, everything up to the render succeeded and no refresh
\* token is stored: the video is written, upload_short prints a skip message and
\* contacts nobody, and the process exits with code zero.
C5_NoTokenSkipsUpload ==
    token = "unset" =>
        /\ args.upload
        /\ pc = "exit"
        /\ exitCode = 0
        /\ outfile = "complete"
        /\ "Video saved" \in log
        /\ \/ "YT_REFRESH_TOKEN not set - skipping upload." \in log
           \/ "google-api-python-client not installed - skipping upload." \in log
        /\ "yt" \notin requests
        /\ "Fatal error" \notin log

C5_SkippedForToken ==
    /\ token = "unset"
    /\ pc = "exit"
    /\ "YT_REFRESH_TOKEN not set - skipping upload." \in log

MissingKeyErrors ==
    {MissingPexelsKey, MissingElevenKey,
     RetryError(MissingPexelsKey), RetryError(MissingElevenKey)}

\* C6 (as stated): no request to the language model, the video search or a clip
\* download precedes the fatal error for a missing required key.
C6_NoRequestBeforeKeyError ==
    err \in MissingKeyErrors => requests \cap {"llm", "search", "download"} = {}

\* C6 (amended): only the language-model key is checked before any network call
\* (fatal at import); a missing stock-video or speech-synthesis key is warned
\* about at import and becomes an error when its wrapper is called, after the
\* requests of the earlier stages; no request goes to a service whose key is missing.
C6_KeysCheckedPerService ==
    /\ "llm" \in requests => env.openai
    /\ requests \cap {"search", "download"} # {} => env.pexels
    /\ "tts" \in requests => env.eleven
    /\ (~env.openai /\ pc # "import") =>
          /\ pc = "exit" /\ exitCode = 1 /\ requests = {}
          /\ "ERROR: OPENAI_API_KEY is not set." \in log
    /\ (env.openai /\ pc # "import" /\ ~env.pexels) =>
          "WARNING: PEXELS_API_KEY is not set." \in log
    /\ (env.openai /\ pc # "import" /\ ~env.eleven) =>
          "WARNING: ELEVENLABS_API_KEY is not set." \in log
    /\ err \in MissingKeyErrors => "llm" \in requests
    /\ err \in {MissingElevenKey, RetryError(MissingElevenKey)} =>
          {"llm", "search", "download"} \subseteq requests
    /\ err \in {RetryError(MissingPexelsKey), RetryError(MissingElevenKey)} =>
          pc = "exit" /\ exitCode = 1

C6_SpeechKeyFoundLate ==
    /\ err = RetryError(MissingElevenKey)
    /\ pc = "exit"
    /\ {"llm", "search", "download"} \subseteq requests

\* C7: once build_video has been left, by return or by exception, no handle it
\* opened is still open.
C7_HandlesClosedOnExit ==
    pc \in UploadPcs \cup {"exit"} => \A h \in Handles : handles[h] # "open"

\* C8: when the process has ended, the final output path is absent or holds the
\* complete video.
C8_NoPartialOutput == pc = "exit" => outfile # "partial"

\* C9: a search that returns zero videos makes fetch_vertical_clip raise the
\* "no results" error, without download and without a clip; no other failure of
\* the fetcher carries that error, also inside the RetryError of the last attempt.
C9_NoResultsDistinct ==
    /\ []( /\ lastSearch = "empty" =>
                /\ pc \in {"fetch_search", "exit"}
                /\ fetch = NoFetch
                /\ \/ err \in {NoResultsError, RetryError(NoResultsError)}
                   \/ err.type = "KeyboardInterrupt"
           /\ (pc # "fetch_download" /\ err.msg = NoResultsError.msg) =>
                lastSearch = "empty"
           /\ err = RetryError(NoResultsError) =>
                pc = "exit" /\ exitCode = 1 /\ attempts = FetchAttempts )
    /\ [][ lastSearch' = "empty" /\ pc = "fetch_search" =>
             /\ clips' = clips
             /\ "download" \in requests' => "download" \in requests ]_vars

C9_NoResultsExhausted ==
    /\ pc = "exit"
    /\ lastSearch = "empty"
    /\ err = RetryError(NoResultsError)

\* how far the process has come; every step moves it forward
Stage ==
    CASE pc = "import" -> 0
      [] pc = "main" -> 1
      [] pc = "generate_script" -> 2
      [] pc \in FetchPcs -> 3
      [] pc = "generate_voiceover" -> 4
      [] pc = "build_video" -> 5
      [] pc = "build_concat" -> 6
      [] pc = "build_caption" -> 7
      [] pc = "build_write" -> 8
      [] pc = "build_writing" -> 9
      [] pc = "build_cleanup" -> 10
      [] pc = "upload_short" -> 11
      [] pc = "uploading" -> 12
      [] pc = "exit" -> 13

Progress ==
    <<Stage,
      IF pc \in FetchPcs THEN Len(clips) ELSE 0,
      IF pc = "exit" THEN 0 ELSE attempts,
      IF pc = "fetch_download" THEN 1 ELSE 0,
      IF pc = "exit" THEN 0 ELSE Len(video_clips) + chunks>>

\* lexicographic order on tuples of the same length
RECURSIVE LexLess(_, _)
LexLess(a, b) ==
    /\ a # <<>>
    /\ \/ a[1] < b[1]
       \/ a[1] = b[1] /\ LexLess(Tail(a), Tail(b))

\* C10 (as stated): a run ends with a rendered video or with a fatal error.
C10_EndsRenderedOrFatal ==
    pc = "exit" => (outfile = "complete" \/ exitCode # 0)

\* C10 (amended): every wrapper is attempted at most 4 / 3 / 3 times per call, the
\* failure of the last attempt reaches the top-level handler, which prints and
\* exits non-zero, every step brings the run forward, and a run ends with a
\* rendered video, with a fatal error, after a dry run's script, or by user abort.
C10_BoundedRetriesTerminate ==
    /\ []( /\ pc = "generate_script" => attempts < ScriptAttempts
           /\ pc \in FetchPcs => attempts < FetchAttempts
           /\ pc = "generate_voiceover" => attempts < VoiceAttempts
           /\ err.type = "RetryError" =>
                /\ pc = "exit" /\ exitCode = 1 /\ "Fatal error" \in log
                /\ attempts = (IF err.last \in {"RateLimitError", "APIError"}
                               THEN ScriptAttempts ELSE FetchAttempts)
           /\ pc = "exit" =>
                \/ outfile = "complete"
                \/ exitCode # 0
                \/ "Dry-run: skipping video/TTS/download/upload." \in log
                \/ "Aborted by user." \in log
           /\ pc # "exit" => ENABLED Next )
    /\ [][LexLess(Progress, Progress')]_vars

C10_ScriptRetriesExhausted ==
    /\ pc = "exit"
    /\ err.type = "RetryError"
    /\ err.last = "RateLimitError"
    /\ attempts = ScriptAttempts
    /\ exitCode = 1

====
